---- MODULE Spec2Model ----
(***************************************************************************)
(* Model of the FORG3D scene renderer: render_scene.py (main, the scene    *)
(* enumeration of render_random_scenes, candidate_objects_with_rotations)  *)
(* and render_objaverse.py (render_scene_3drf, add_objects_3drf,           *)
(* check_overlap, extract_masks_3drf).  The 3D engine is external: its     *)
(* render call may raise, and its camera projection is an input.           *)
(***************************************************************************)
EXTENDS Integers, Sequences, FiniteSets, TLC

(* ---------------------------- bounds ----------------------------------- *)
\* largest --max-images value explored
MaxCap == 2
\* largest number of sampled camera configurations explored
MaxCams == 2
\* failed render attempts of one scene that are told apart
MaxRetries == 1
\* largest projected pixel coordinate of a bounding-box corner
MaxCoord == 2
\* largest image width / height (pixels per normalized unit)
MaxRes == 2

(* ---------------------------- values ----------------------------------- *)
None == "None"

\* render_scene.py:35
directions == <<"front", "right", "behind", "left">>

Dirs == {directions[k] : k \in 1..Len(directions)}

ObjNames == {"A", "B", "C"}

\* keys of a properties entry read by the code
Keys == {"name", "default_orientation", "group", "file", "scale"}

SetMin(S) == CHOOSE x \in S : \A y \in S : x <= y

SetMax(S) == CHOOSE x \in S : \A y \in S : x >= y

Max2(a, b) == IF a >= b THEN a ELSE b

Min2(a, b) == IF a <= b THEN a ELSE b

\* list.index of render_scene.py:115
IndexOf(seq, x) == CHOOSE k \in 1..Len(seq) : seq[k] = x

Flatten3(seqs, n) == LET RECURSIVE F(_)
                         F(k) == IF k > n THEN << >> ELSE seqs[k] \o F(k + 1)
                     IN F(1)

(* ------------------- render_scene.py: enumeration ---------------------- *)
\* the worklist keeps one record per orientation variant; rotation is counted
\* in quarter turns (0, pi/2, pi, 3pi/2)
candidate_objects_with_rotations(obj) ==
    IF obj.default_orientation # None
    THEN [i \in 1..4 |->
            [name |-> obj.name, keys |-> obj.keys, rotation |-> i - 1,
             orientation |->
                directions[((IndexOf(directions, obj.default_orientation) - 1 + (i - 1)) % 4) + 1]]]
    ELSE << [name |-> obj.name, keys |-> obj.keys, rotation |-> 0, orientation |-> None] >>

\* the triple loop direction / obj_i_r / obj_j_r (render_scene.py:155-158)
scene_combinations(vi, vj) ==
    LET a == Len(vi)
        b == Len(vj)
    IN [n \in 1..(Len(directions) * a * b) |->
          [obj_i_r |-> vi[(((n - 1) % (a * b)) \div b) + 1],
           obj_j_r |-> vj[((n - 1) % b) + 1],
           direction |-> directions[((n - 1) \div (a * b)) + 1]]]

\* the grouping step with an off-by-one cap test
GroupStepInclusive(acc, scene, max_images) ==
    LET d == scene.direction
        withKey == IF d \in DOMAIN acc THEN acc ELSE acc @@ (d :> << >>)
    IN IF Len(withKey[d]) <= max_images
       THEN [withKey EXCEPT ![d] = Append(@, scene)]
       ELSE withKey

\* one step of the grouping loop (render_scene.py:160-164)
GroupStep(acc, scene, max_images) ==
    LET d == scene.direction
        withKey == IF d \in DOMAIN acc THEN acc ELSE acc @@ (d :> << >>)
    IN IF Len(withKey[d]) < max_images
       THEN [withKey EXCEPT ![d] = Append(@, scene)]
       ELSE withKey

\* the grouping loop over all generated candidates (render_scene.py:159-164)
scenes_by_directions(sc, max_images) ==
    LET RECURSIVE G(_, _)
        \* the dictionary after step k is bound by value before the next step
        G(k, acc) == IF k > Len(sc) THEN acc
                     ELSE CHOOSE r \in {G(k + 1, next) :
                                           next \in {GroupStep(acc, sc[k], max_images)}} : TRUE
    IN G(1, << >>)

\* camera expansion of one retained candidate (render_scene.py:168-169)
CameraExpand(scene, camera_configs) ==
    [c \in 1..Len(camera_configs) |->
        [obj_i_r |-> scene.obj_i_r, obj_j_r |-> scene.obj_j_r,
         direction |-> scene.direction, camera_config |-> camera_configs[c]]]

\* the two loops of the camera expansion exchanged: camera outer, candidate inner
DirectionScenesCameraMajor(kept, camera_configs) ==
    Flatten3([c \in 1..Len(camera_configs) |->
                [s \in 1..Len(kept) |->
                    [obj_i_r |-> kept[s].obj_i_r, obj_j_r |-> kept[s].obj_j_r,
                     direction |-> kept[s].direction, camera_config |-> camera_configs[c]]]],
             Len(camera_configs))

\* all retained candidates of one direction, camera-expanded (render_scene.py:167-169)
DirectionScenes(kept, camera_configs) ==
    Flatten3([s \in 1..Len(kept) |-> CameraExpand(kept[s], camera_configs)], Len(kept))

\* render_scene.py:165-169
filtered_scenes(byDir, camera_configs) ==
    Flatten3([k \in 1..Len(directions) |->
                DirectionScenes(byDir[directions[k]], camera_configs)], Len(directions))

\* positions (i, j), i < j, in the order of the two nested loops (render_scene.py:148-150)
PairPositions(n) ==
    LET RowOf(i) == [j \in 1..(n - i) |-> <<i, i + j>>]
    IN Flatten3([i \in 1..n |-> RowOf(i)], n)

(* ------------------- render_objaverse.py: check_overlap ---------------- *)
\* bounding rectangle of the projected corners, in pixels (render_objaverse.py:69-79)
BBox(us, vs, width, height) ==
    LET x_min == SetMin(us) * width
        x_max == SetMax(us) * width
        y_min == SetMin(vs) * height
        y_max == SetMax(vs) * height
    IN [x_min |-> x_min, x_max |-> x_max, y_min |-> y_min, y_max |-> y_max,
        area |-> Max2(0, x_max - x_min) * Max2(0, y_max - y_min)]

\* render_objaverse.py:84-86
intersection_area(b1, b2) ==
    LET inter_x == Max2(0, Min2(b1.x_max, b2.x_max) - Max2(b1.x_min, b2.x_min))
        inter_y == Max2(0, Min2(b1.y_max, b2.y_max) - Max2(b1.y_min, b2.y_min))
    IN inter_x * inter_y

\* the side-by-side test with >= in place of >
check_overlapTouching(b1, b2, direction) ==
    LET area == intersection_area(b1, b2)
    IN IF direction \in {"left", "right"}
       THEN area >= 0
       ELSE IF 4 * area >= 3 * Min2(b1.area, b2.area)
            THEN (b1.area < b2.area /\ direction = "front")
                 \/ (b1.area >= b2.area /\ direction = "behind")
            ELSE FALSE

\* render_objaverse.py:88-93; 0.75 * m is compared as 4 * area >= 3 * m
check_overlap(b1, b2, direction) ==
    LET area == intersection_area(b1, b2)
    IN IF direction \in {"left", "right"}
       THEN area > 0
       ELSE IF 4 * area >= 3 * Min2(b1.area, b2.area)
            THEN (b1.area < b2.area /\ direction = "front")
                 \/ (b1.area >= b2.area /\ direction = "behind")
            ELSE FALSE

(* ---------------------------- inputs ----------------------------------- *)
NameOrder == <<"A", "B", "C">>

GroupOf == [n \in ObjNames |-> CASE n = "A" -> "small" [] n = "B" -> "medium" [] OTHER -> "large"]

\* default orientations of the properties tables explored
OrientTables ==
    { [n \in ObjNames |-> CASE n = "A" -> "front" [] n = "B" -> None [] OTHER -> "left"],
      [n \in ObjNames |-> CASE n = "C" -> "behind" [] OTHER -> None] }

\* values of --objects explored, when the option is given
ObjLists == {<<"A", "B">>, <<"C", "A">>, <<"B">>}

\* at most one configuration defect per run
DefectObjs == {"B", "C"}

\* the keys a defect removes
DefectKeys == {"default_orientation", "group", "file"}

ConfigDefects == {"properties_json", "intrinsic_directions", "3d_translation", "3d_intrinsic"}

Defects ==
    {<<"none", "-", "-">>}
    \cup {<<"absent", o, "-">> : o \in DefectObjs}
    \cup {<<"key", o, k>> : o \in DefectObjs, k \in DefectKeys}
    \cup {<<"config", "-", t>> : t \in ConfigDefects}

\* the properties table: object name -> entry
PropertiesOf(orient, defect) ==
    [n \in (IF defect[1] = "absent" THEN ObjNames \ {defect[2]} ELSE ObjNames) |->
        [name |-> n,
         keys |-> IF defect[1] = "key" /\ defect[2] = n THEN Keys \ {defect[3]} ELSE Keys,
         default_orientation |-> orient[n],
         group |-> GroupOf[n]]]

\* config.json: which tables and entries are present
ConfigOf(defect) ==
    [properties_json |-> defect # <<"config", "-", "properties_json">>,
     intrinsic_directions |-> defect # <<"config", "-", "intrinsic_directions">>,
     translation |-> IF defect = <<"config", "-", "3d_translation">> THEN Dirs \ {"front"} ELSE Dirs,
     reflection |-> Dirs,
     intrinsic |-> defect # <<"config", "-", "3d_intrinsic">>]

ConfigValid(props, cfg) ==
    /\ DOMAIN props = ObjNames
    /\ \A n \in ObjNames : props[n].keys = Keys
    /\ cfg = ConfigOf(<<"none", "-", "-">>)

\* projected corner coordinates of (ground, figure) returned by the engine
ViewSamples ==
    { [us1 |-> {0, 1}, vs1 |-> {0, 1}, us2 |-> {1, 2}, vs2 |-> {0, 2}],
      [us1 |-> {0, 1}, vs1 |-> {0, 1}, us2 |-> {0, 2}, vs2 |-> {0, 2}],
      [us1 |-> {0, 2}, vs1 |-> {0, 2}, us2 |-> {0, 2}, vs2 |-> {0, 1}],
      [us1 |-> {0}, vs1 |-> {0, 1}, us2 |-> {1, 2}, vs2 |-> {0, 1}] }

(* ------------------- render_scene.py: generate_camera_configs ---------- *)
\* the value lists of render_scene.py:86-89; heights are counted in half metres
Tilts == <<85, 90, 95>>

Pans == <<40, 45, 50>>

Heights == <<1, 2, 3>>

FocalLengths == <<50, 60, 70>>

\* random.seed(42) (render_scene.py:96)
Seed == 42

\* the grid in the order of the four nested loops (render_scene.py:85-95)
Grid ==
    [n \in 1..81 |->
        [tilt |-> Tilts[((n - 1) \div 27) + 1],
         pan |-> Pans[(((n - 1) \div 9) % 3) + 1],
         height |-> Heights[(((n - 1) \div 3) % 3) + 1],
         focal_length |-> FocalLengths[((n - 1) % 3) + 1]]]

GridSize == Len(Grid)

\* the pseudo-random generator of the random module is external; a 16-bit
\* linear congruential generator stands for it: the state a seed sets, the
\* next state, and the number below n a state yields
random_seed(x) == x % 65536

rand_next(state) == (state * 25173 + 13849) % 65536

randbelow(n, state) == (rand_next(state) \div 256) % n

Swap(x, i, j) == [x EXCEPT ![i] = x[j], ![j] = x[i]]

\* one pass of the loop of random.shuffle: exchange x[i] with x[j], j drawn
\* among the positions up to i; acc is the list and the generator state
ShuffleStep(acc, i) ==
    <<Swap(acc[1], i, randbelow(i, acc[2]) + 1), rand_next(acc[2])>>

\* the passes for i = hi down to lo
ShuffleSteps(acc, hi, lo) ==
    LET RECURSIVE F(_, _)
        F(i, a) == IF i < lo THEN a
                   ELSE CHOOSE r \in {F(i - 1, next) : next \in {ShuffleStep(a, i)}} : TRUE
    IN F(hi, acc)

\* random.shuffle (render_scene.py:97): the passes from the last position down
\* to the second, taken nine at a time; the result is the list and the state
\* of the generator
random_shuffle(x, state) ==
    LET RECURSIVE B(_, _)
        B(hi, acc) ==
            IF hi < 2 THEN acc
            ELSE CHOOSE r \in {B(Max2(2, hi - 8) - 1, next) :
                                  next \in {ShuffleSteps(acc, hi, Max2(2, hi - 8))}} : TRUE
    IN B(Len(x), <<x, state>>)

\* x[:n] of a list
Slice(x, n) ==
    IF n >= 0 THEN SubSeq(x, 1, Min2(n, Len(x)))
    ELSE SubSeq(x, 1, Max2(Len(x) + n, 0))

\* the grid after random.seed(42); random.shuffle(camera_configs)
ShuffledGrid == random_shuffle(Grid, random_seed(Seed))[1]

\* the state of the generator after a call of generate_camera_configs
RngAfterSampling == random_shuffle(Grid, random_seed(Seed))[2]

\* the generator is seeded with the requested count
generate_camera_configsSeedByCount(max_configs) ==
    Slice(random_shuffle(Grid, random_seed(max_configs))[1], max_configs)

\* render_scene.py:76-98
generate_camera_configs(max_configs) == Slice(ShuffledGrid, max_configs)

(* ---------------------------- state ------------------------------------ *)
VARIABLES
    args,                \* parsed command line
    properties,          \* the properties table
    config,              \* config.json
    view,                \* what the engine's camera projection returns
    pc,                  \* position of the run
    error,               \* the exception that ended the run, or None
    obj_names,           \* render_scene.py:235-238
    camera_configs,      \* render_scene.py:240
    retained,            \* scenes_by_directions of every pair, in pair order
    object_combinations, \* render_scene.py:147-170
    pair_idx,            \* position of the outer render loop
    scene_idx,           \* position of the inner render loop
    image_count,         \* render_scene.py:172
    cur,                 \* arguments of the running render_scene_3drf call
    dirs,                \* directories that exist
    images,              \* rendered image files on disk
    masks,               \* mask files written, in order
    records,             \* scene records written, in order
    attempted,           \* render_scene_3drf calls, in order
    states,              \* orchestrator state of every call
    retries,             \* exceptions logged by the retry loop of this call
    render_issued,       \* a render call has been issued in this run
    ov_in,               \* check_overlap applied on its own: arguments
    ov_out,              \* check_overlap applied on its own: result
    heap,                \* candidate_objects_with_rotations on its own: the dicts
    cand,                \* candidate_objects_with_rotations on its own: the call
    rng,                 \* state of the pseudo-random generator
    cam,                 \* generate_camera_configs on its own: counts and results
    pl                   \* frame and placement of render_scene_3drf on their own

vars == <<args, properties, config, view, pc, error, obj_names, camera_configs,
          retained, object_combinations, pair_idx, scene_idx, image_count, cur,
          dirs, images, masks, records, attempted, states, retries,
          render_issued, ov_in, ov_out, heap, cand, rng, cam, pl>>

candvars == <<heap, cand>>

camvars == <<rng, cam>>

\* the state of the functions that are also run on their own
units == <<candvars, camvars, pl>>

inputs == <<args, properties, config, view>>

\* the default None of the four camera options (render_scene.py:65-72)
NotGiven == -1

\* truth value of an option in all([...]) (render_scene.py:196)
Truthy(x) == x # NotGiven /\ x # 0

NoCamera == [tilt |-> NotGiven, pan |-> NotGiven, height |-> NotGiven,
             focal_length |-> NotGiven]

\* the four camera options given, none of them 0
AllOverrides == [tilt |-> 60, pan |-> 30, height |-> 4, focal_length |-> 35]

\* values of the four camera options explored
CameraArgs ==
    {NoCamera, AllOverrides, [AllOverrides EXCEPT !.pan = 0],
     [NoCamera EXCEPT !.tilt = 60]}

\* the parsed command line
ArgsOf(random, given, objects, max_images, max_camera_configs, direction, camera) ==
    [render_random |-> random, objects_given |-> given, objects |-> objects,
     max_images |-> max_images, max_camera_configs |-> max_camera_configs,
     direction |-> direction,
     camera_tilt |-> camera.tilt, camera_pan |-> camera.pan,
     camera_height |-> camera.height, camera_focal_length |-> camera.focal_length]

NoVariant == [name |-> "-", keys |-> {}, rotation |-> 0, orientation |-> None]

NoPath == [root |-> "-", obj_i |-> "-", obj_j |-> "-", direction |-> "-", file |-> -1]

NoCall == [index |-> -1, ground |-> NoVariant, figure |-> NoVariant, direction |-> "-",
           camera_settings |-> NoCamera, output_image |-> NoPath, output_scene |-> NoPath]

NoOverlapInput == [us1 |-> {0}, vs1 |-> {0}, us2 |-> {0}, vs2 |-> {0},
                   width |-> 1, height |-> 1, direction |-> "-"]

NoCand == [obj |-> 0, i |-> 0, ret_objs |-> << >>, before |-> << >>, returned |-> FALSE]

NoCam == [counts |-> << >>, out |-> << >>]

CandidatesIdle ==
    /\ heap = << >>
    /\ cand = NoCand

CameraIdle ==
    /\ rng = 0
    /\ cam = NoCam

NoPlacement == [calls |-> << >>, k |-> 0, at |-> "-", distance |-> 0, dicts |-> << >>,
                scene_directions |-> << >>, persisted |-> << >>]

PlacementIdle == pl = NoPlacement

\* no function is run on its own
UnitsIdle == CandidatesIdle /\ CameraIdle /\ PlacementIdle

ArgsSet ==
    {ArgsOf(TRUE, TRUE, o, m, c, "front", NoCamera) :
        o \in ObjLists, m \in 0..MaxCap, c \in 0..MaxCams}
    \cup
    {ArgsOf(TRUE, FALSE, << >>, m, c, "front", NoCamera) :
        m \in 0..MaxCap, c \in 0..MaxCams}
    \cup
    {ArgsOf(FALSE, TRUE, o, 1, 1, d, k) :
        o \in ObjLists, d \in {"front", "left"}, k \in {NoCamera, AllOverrides}}
    \cup
    {ArgsOf(FALSE, FALSE, << >>, 1, 1, "front", AllOverrides)}

RunStart ==
    /\ pc = "main"
    /\ error = None
    /\ obj_names = << >>
    /\ camera_configs = << >>
    /\ retained = << >>
    /\ object_combinations = << >>
    /\ pair_idx = 1
    /\ scene_idx = 1
    /\ image_count = 0
    /\ cur = NoCall
    /\ dirs = {}
    /\ images = {}
    /\ masks = << >>
    /\ records = << >>
    /\ attempted = << >>
    /\ states = << >>
    /\ retries = 0
    /\ render_issued = FALSE

Init ==
    /\ args \in ArgsSet
    /\ \E o \in OrientTables, d \in Defects :
          /\ properties = PropertiesOf(o, d)
          /\ config = ConfigOf(d)
    /\ view \in ViewSamples
    /\ RunStart
    /\ ov_in = NoOverlapInput
    /\ ov_out = << >>
    /\ UnitsIdle

(* ------------------- render_scene.py: main and the worklist ------------ *)
DirPath(root, obj_i, obj_j, direction) ==
    [root |-> root, obj_i |-> obj_i, obj_j |-> obj_j, direction |-> direction, file |-> -1]

FilePath(root, obj_i, obj_j, direction, file) ==
    [root |-> root, obj_i |-> obj_i, obj_j |-> obj_j, direction |-> direction, file |-> file]

\* render_scene.py:227-232
RootDirs == {DirPath("images", "-", "-", "-"), DirPath("scenes", "-", "-", "-"),
             DirPath("masks", "-", "-", "-")}

\* render_scene.py:235-238
ObjNamesOf(a, props) ==
    IF a.objects_given THEN a.objects
    ELSE SelectSeq(NameOrder, LAMBDA n : n \in DOMAIN props)

\* a lookup of render_scene.py:151-152 or :114 raises KeyError
VariantsFail(name, props) ==
    \/ name \notin DOMAIN props
    \/ "default_orientation" \notin props[name].keys

EnumFails(names, props) ==
    \E k \in 1..Len(PairPositions(Len(names))) :
        \/ VariantsFail(names[PairPositions(Len(names))[k][1]], props)
        \/ VariantsFail(names[PairPositions(Len(names))[k][2]], props)

\* scenes_by_directions of the pair at positions pos (render_scene.py:151-164)
RetainedOf(names, props, pos, max_images) ==
    scenes_by_directions(
        scene_combinations(candidate_objects_with_rotations(props[names[pos[1]]]),
                           candidate_objects_with_rotations(props[names[pos[2]]])),
        max_images)

AllRetained(names, props, max_images) ==
    [k \in 1..Len(PairPositions(Len(names))) |->
        RetainedOf(names, props, PairPositions(Len(names))[k], max_images)]

\* render_scene.py:147-170
ObjectCombinations(names, byDirs, cams) ==
    [k \in 1..Len(byDirs) |->
        [obj_i |-> names[PairPositions(Len(names))[k][1]],
         obj_j |-> names[PairPositions(Len(names))[k][2]],
         scenes |-> filtered_scenes(byDirs[k], cams)]]

(* ------------------- render_objaverse.py: render_scene_3drf ------------ *)
\* add_objects_3drf raises KeyError (render_objaverse.py:107-135)
AddObjectsFails(ground, figure) ==
    \/ "name" \notin ground.keys
    \/ "group" \notin ground.keys
    \/ /\ GroupOf[ground.name] \in {"small", "medium"}
       /\ ("name" \notin figure.keys \/ "group" \notin figure.keys)
    \/ \E o \in {ground, figure} : {"name", "file", "scale"} \ o.keys # {}

\* math.radians(None) or an engine property set to None
\* (render_objaverse.py:199-201)
CameraFails(camera_settings) ==
    NotGiven \in {camera_settings.tilt, camera_settings.pan, camera_settings.height,
                  camera_settings.focal_length}

\* the exception the part of render_scene_3drf before the render loop raises,
\* or None (render_objaverse.py:172-223)
SetupError(call, cfg) ==
    IF ~cfg.intrinsic_directions THEN "KeyError"
    ELSE IF CameraFails(call.camera_settings) THEN "TypeError"
    ELSE IF AddObjectsFails(call.ground, call.figure) THEN "KeyError"
    ELSE None

SetupFails(call, cfg) == SetupError(call, cfg) # None

\* building the scene record raises KeyError (render_objaverse.py:262-269)
RecordFails(call, cfg) ==
    \/ call.direction \notin cfg.translation
    \/ call.direction \notin cfg.reflection
    \/ (call.ground.orientation # None /\ ~cfg.intrinsic)
    \/ (call.figure.orientation # None /\ ~cfg.intrinsic)

\* the figure is seen from the ground in the direction left unchanged
reversed_directionSame(direction) == direction

\* render_objaverse.py:256-261
reversed_direction(direction) ==
    CASE direction = "behind" -> "front"
      [] direction = "front" -> "behind"
      [] direction = "left" -> "right"
      [] direction = "right" -> "left"

\* template.format(a, b): the template is named by its table and key
Caption(table, key, a, b) == [table |-> table, key |-> key, args |-> <<a, b>>]

\* config['intrinsic_directions'][orientation][direction]: the label is named
\* by the entry looked up
intrinsic_relation(orientation, direction) == <<orientation, direction>>

\* the summary of one object in the record, with its intrinsic relation and
\* caption if it has an orientation (render_objaverse.py:243-254, :264-269)
ObjectSummary(obj, other, direction) ==
    IF obj.orientation # None
    THEN [name |-> obj.name, orientation |-> obj.orientation, rotation |-> obj.rotation,
          intrinsic_relation |-> intrinsic_relation(obj.orientation, direction),
          intrinsic_caption |->
             Caption("3d_intrinsic", intrinsic_relation(obj.orientation, direction),
                     obj.name, other.name)]
    ELSE [name |-> obj.name, orientation |-> obj.orientation, rotation |-> obj.rotation]

\* render_objaverse.py:188-202, 243-269
scene_struct(call) ==
    [image_index |-> call.index,
     image_filename |-> call.output_image.file,
     output_scene |-> call.output_scene,
     camera |-> call.camera_settings,
     direction |-> call.direction,
     ground_object |-> ObjectSummary(call.ground, call.figure, call.direction),
     figure_object |-> ObjectSummary(call.figure, call.ground,
                                     reversed_direction(call.direction)),
     translational_relation_caption |->
        Caption("3d_translation", call.direction, call.figure.name, call.ground.name),
     reflectional_relation_caption |->
        Caption("3d_reflection", call.direction, call.figure.name, call.ground.name)]

\* the call enters render_scene_3drf: it raises before rendering, or reaches
\* the render loop
Enter(call) ==
    /\ cur' = call
    /\ attempted' = Append(attempted, call)
    /\ retries' = 0
    /\ IF SetupFails(call, config)
       THEN /\ pc' = "raised"
            /\ error' = SetupError(call, config)
            /\ states' = Append(states, "NONE")
       ELSE /\ pc' = "render"
            /\ error' = error
            /\ states' = Append(states, "PLANNED")

\* render_scene_3drf returns to its caller (render_scene.py:205-206, :267)
Return ==
    /\ cur' = NoCall
    /\ IF args.render_random
       THEN /\ image_count' = image_count + 1
            /\ scene_idx' = scene_idx + 1
            /\ pc' = "scene"
       ELSE /\ pc' = "done"
            /\ UNCHANGED <<image_count, scene_idx>>

Raise(e) ==
    /\ pc' = "raised"
    /\ error' = e

(* ---------------------------- actions ---------------------------------- *)
\* the single scene of render_scene.py:242-267
SingleCall(names, props) ==
    [index |-> 0,
     ground |-> [name |-> names[1], keys |-> props[names[1]].keys, rotation |-> 0,
                 orientation |-> props[names[1]].default_orientation],
     figure |-> [name |-> names[2], keys |-> props[names[2]].keys, rotation |-> 0,
                 orientation |-> props[names[2]].default_orientation],
     direction |-> args.direction,
     camera_settings |-> [tilt |-> args.camera_tilt, pan |-> args.camera_pan,
                          height |-> args.camera_height,
                          focal_length |-> args.camera_focal_length],
     output_image |-> FilePath("images", "-", "-", "-", -1),
     output_scene |-> FilePath("scenes", "-", "-", "-", -1)]

\* render_scene.py:246-257 raises AssertionError or KeyError
SingleError(names, props) ==
    IF Len(names) # 2 THEN "AssertionError"
    ELSE IF \E k \in 1..2 : VariantsFail(names[k], props) THEN "KeyError"
    ELSE None

\* main up to the first render_scene_3drf call (render_scene.py:208-267)
Main ==
    /\ pc = "main"
    /\ dirs' = dirs \cup RootDirs
    /\ IF ~config.properties_json
       THEN /\ Raise("FileNotFoundError")
            /\ UNCHANGED <<obj_names, camera_configs, retained, object_combinations,
                           cur, attempted, states, retries>>
       ELSE LET names == ObjNamesOf(args, properties)
            IN /\ obj_names' = names
               /\ IF args.render_random
                  THEN /\ camera_configs' = generate_camera_configs(args.max_camera_configs)
                       /\ UNCHANGED <<cur, attempted, states, retries>>
                       /\ IF EnumFails(names, properties)
                          THEN /\ Raise("KeyError")
                               /\ UNCHANGED <<retained, object_combinations>>
                          ELSE /\ retained' = AllRetained(names, properties, args.max_images)
                               /\ object_combinations' =
                                     ObjectCombinations(
                                        names,
                                        AllRetained(names, properties, args.max_images),
                                        generate_camera_configs(args.max_camera_configs))
                               /\ pc' = "pair"
                               /\ error' = error
                  ELSE /\ UNCHANGED <<camera_configs, retained, object_combinations>>
                       /\ IF SingleError(names, properties) # None
                          THEN /\ Raise(SingleError(names, properties))
                               /\ UNCHANGED <<cur, attempted, states, retries>>
                          ELSE Enter(SingleCall(names, properties))
    /\ rng' = IF config.properties_json /\ args.render_random THEN RngAfterSampling ELSE rng
    /\ UNCHANGED <<inputs, pair_idx, scene_idx, image_count, images, masks, records,
                   render_issued, ov_in, ov_out, candvars, cam, pl>>

\* the outer render loop: next pair, its two directories (render_scene.py:173-181)
PairBegin ==
    /\ pc = "pair"
    /\ IF pair_idx > Len(object_combinations)
       THEN /\ pc' = "done"
            /\ UNCHANGED <<dirs, scene_idx>>
       ELSE LET comb == object_combinations[pair_idx]
            IN /\ dirs' = dirs \cup {DirPath("images", comb.obj_i, comb.obj_j, "-"),
                                      DirPath("scenes", comb.obj_i, comb.obj_j, "-")}
               /\ scene_idx' = 1
               /\ pc' = "scene"
    /\ UNCHANGED <<inputs, error, obj_names, camera_configs, retained, object_combinations,
                   pair_idx, image_count, cur, images, masks, records, attempted, states,
                   retries, render_issued, ov_in, ov_out, units>>

\* the camera of a scene of the render loop: the four options if all of them
\* are truthy, else the sampled configuration (render_scene.py:196-204)
camera_settings(camera_config) ==
    IF \A x \in {args.camera_tilt, args.camera_pan, args.camera_height,
                  args.camera_focal_length} : Truthy(x)
    THEN [tilt |-> args.camera_tilt, pan |-> args.camera_pan,
          height |-> args.camera_height, focal_length |-> args.camera_focal_length]
    ELSE camera_config

\* the call with an index that restarts at 0 for every pair
RandomCallPerPair(comb, scene, count) ==
    [index |-> scene_idx - 1,
     ground |-> scene.obj_i_r,
     figure |-> scene.obj_j_r,
     direction |-> scene.direction,
     camera_settings |-> camera_settings(scene.camera_config),
     output_image |-> FilePath("images", comb.obj_i, comb.obj_j, scene.direction, scene_idx - 1),
     output_scene |-> FilePath("scenes", comb.obj_i, comb.obj_j, scene.direction, scene_idx - 1)]

\* the call of render_scene.py:205 for the scene at (pair_idx, scene_idx)
RandomCall(comb, scene, count) ==
    [index |-> count,
     ground |-> scene.obj_i_r,
     figure |-> scene.obj_j_r,
     direction |-> scene.direction,
     camera_settings |-> camera_settings(scene.camera_config),
     output_image |-> FilePath("images", comb.obj_i, comb.obj_j, scene.direction, count),
     output_scene |-> FilePath("scenes", comb.obj_i, comb.obj_j, scene.direction, count)]

\* only the image directory of a (pair, direction) is made
DirectionDirsImagesOnly(comb, scene) ==
    {DirPath("images", comb.obj_i, comb.obj_j, scene.direction)}

\* the two directories of a (pair, direction) (render_scene.py:184-189)
DirectionDirs(comb, scene) ==
    {DirPath("images", comb.obj_i, comb.obj_j, scene.direction),
     DirPath("scenes", comb.obj_i, comb.obj_j, scene.direction)}

\* the inner render loop: next scene of the pair, its two directories, and the
\* call of render_scene_3drf up to its render loop (render_scene.py:182-205)
SceneBegin ==
    /\ pc = "scene"
    /\ LET comb == object_combinations[pair_idx]
       IN IF scene_idx > Len(comb.scenes)
          THEN /\ pair_idx' = pair_idx + 1
               /\ pc' = "pair"
               /\ UNCHANGED <<dirs, cur, attempted, states, retries, error>>
          ELSE LET scene == comb.scenes[scene_idx]
               IN /\ dirs' = dirs \cup DirectionDirs(comb, scene)
                  /\ Enter(RandomCall(comb, scene, image_count))
                  /\ pair_idx' = pair_idx
    /\ UNCHANGED <<inputs, obj_names, camera_configs, retained, object_combinations,
                   scene_idx, image_count, images, masks, records, render_issued,
                   ov_in, ov_out, units>>

\* the except branch leaves the loop instead of trying again
RenderFailBreak ==
    /\ pc = "render"
    /\ render_issued' = TRUE
    /\ retries' = Min2(retries + 1, MaxRetries)
    /\ pc' = "check"
    /\ UNCHANGED <<inputs, error, obj_names, camera_configs, retained,
                   object_combinations, pair_idx, scene_idx, image_count, cur, dirs,
                   images, masks, records, attempted, states, ov_in, ov_out, units>>

\* the render call raises: the loop logs the exception and tries again
\* (render_objaverse.py:229-234)
RenderFail ==
    /\ pc = "render"
    /\ render_issued' = TRUE
    /\ retries' = Min2(retries + 1, MaxRetries)
    /\ UNCHANGED <<inputs, pc, error, obj_names, camera_configs, retained,
                   object_combinations, pair_idx, scene_idx, image_count, cur, dirs,
                   images, masks, records, attempted, states, ov_in, ov_out, units>>

\* the render call succeeds and writes the image (render_objaverse.py:231-232)
RenderOk ==
    /\ pc = "render"
    /\ render_issued' = TRUE
    /\ images' = images \cup {cur.output_image}
    /\ states' = [states EXCEPT ![Len(states)] = "RENDERED"]
    /\ pc' = "check"
    /\ UNCHANGED <<inputs, error, obj_names, camera_configs, retained, object_combinations,
                   pair_idx, scene_idx, image_count, cur, dirs, masks, records, attempted,
                   retries, ov_in, ov_out, units>>

\* the result of render_objaverse.py:236 for the running call
Overlaps(call) ==
    check_overlap(BBox(view.us1, view.vs1, 1, 1), BBox(view.us2, view.vs2, 1, 1),
                  call.direction)

\* the rejected image is left on disk
KeepImage(files, path) == files

\* os.remove(output_image) (render_objaverse.py:238)
RemoveImage(files, path) == files \ {path}

\* overlap detected: the image is removed and the call returns
\* (render_objaverse.py:236-239)
Reject ==
    /\ pc = "check"
    /\ Overlaps(cur)
    /\ images' = RemoveImage(images, cur.output_image)
    /\ states' = [states EXCEPT ![Len(states)] = "REJECTED"]
    /\ Return
    /\ UNCHANGED <<inputs, error, obj_names, camera_configs, retained, object_combinations,
                   pair_idx, dirs, masks, records, attempted, retries, render_issued,
                   ov_in, ov_out, units>>

\* no overlap: the call goes on to the mask extraction (render_objaverse.py:236-241)
Accept ==
    /\ pc = "check"
    /\ ~Overlaps(cur)
    /\ states' = [states EXCEPT ![Len(states)] = "ACCEPTED"]
    /\ pc' = "mask"
    /\ UNCHANGED <<inputs, error, obj_names, camera_configs, retained, object_combinations,
                   pair_idx, scene_idx, image_count, cur, dirs, images, masks, records,
                   attempted, retries, render_issued, ov_in, ov_out, units>>

\* the render call of extract_masks_3drf raises: nothing catches it
\* (render_objaverse.py:40, :241)
MaskRenderFail ==
    /\ pc = "mask"
    /\ Raise("RenderError")
    /\ UNCHANGED <<inputs, obj_names, camera_configs, retained, object_combinations,
                   pair_idx, scene_idx, image_count, cur, dirs, images, masks, records,
                   attempted, states, retries, render_issued, ov_in, ov_out, units>>

\* the mask is rendered, then the scene record is built and written
\* (render_objaverse.py:241-271)
MaskRenderOk ==
    /\ pc = "mask"
    /\ masks' = Append(masks, cur.output_image.file)
    /\ IF RecordFails(cur, config)
       THEN /\ Raise("KeyError")
            /\ UNCHANGED <<records, cur, image_count, scene_idx>>
       ELSE /\ records' = Append(records, scene_struct(cur))
            /\ error' = error
            /\ Return
    /\ UNCHANGED <<inputs, obj_names, camera_configs, retained, object_combinations,
                   pair_idx, dirs, images, attempted, states, retries, render_issued,
                   ov_in, ov_out, units>>

Next ==
    \/ Main
    \/ PairBegin
    \/ SceneBegin
    \/ RenderFail
    \/ RenderOk
    \/ Reject
    \/ Accept
    \/ MaskRenderFail
    \/ MaskRenderOk

Spec == Init /\ [][Next]_vars

(* ------------------- runs with camera options -------------------------- *)
\* random mode over one pair with a valid configuration and every explored
\* combination of the four camera options
OverrideInit ==
    /\ args \in {ArgsOf(TRUE, TRUE, <<"A", "B">>, m, c, "front", k) :
                    m \in 0..MaxCap, c \in 0..MaxCams, k \in CameraArgs}
    /\ \E o \in OrientTables :
          /\ properties = PropertiesOf(o, <<"none", "-", "-">>)
          /\ config = ConfigOf(<<"none", "-", "-">>)
    /\ view \in ViewSamples
    /\ RunStart
    /\ ov_in = NoOverlapInput
    /\ ov_out = << >>
    /\ UnitsIdle

OverrideSpec == OverrideInit /\ [][Next]_vars

(* ------------------- check_overlap on its own -------------------------- *)
\* the projected coordinates of the corners of a box along one axis
CoordSets == {{a, b} : a, b \in 0..MaxCoord}

OverlapInputs ==
    [us1 : CoordSets, vs1 : CoordSets, us2 : CoordSets, vs2 : CoordSets,
     width : {1, MaxRes}, height : {1, MaxRes}, direction : Dirs]

OverlapInit ==
    /\ args = ArgsOf(FALSE, FALSE, << >>, 1, 1, "front", NoCamera)
    /\ properties = PropertiesOf(CHOOSE o \in OrientTables : o["A"] = "front",
                                 <<"none", "-", "-">>)
    /\ config = ConfigOf(<<"none", "-", "-">>)
    /\ view = CHOOSE v \in ViewSamples : v.us1 = {0}
    /\ RunStart
    /\ ov_in \in OverlapInputs
    /\ ov_out = << >>
    /\ UnitsIdle

\* one call of check_overlap (render_objaverse.py:42-93)
CheckOverlapCall ==
    /\ ov_out = << >>
    /\ ov_in.direction \in Dirs
    /\ ov_out' = <<check_overlap(BBox(ov_in.us1, ov_in.vs1, ov_in.width, ov_in.height),
                                 BBox(ov_in.us2, ov_in.vs2, ov_in.width, ov_in.height),
                                 ov_in.direction)>>
    /\ UNCHANGED <<inputs, pc, error, obj_names, camera_configs, retained,
                   object_combinations, pair_idx, scene_idx, image_count, cur, dirs,
                   images, masks, records, attempted, states, retries, render_issued,
                   ov_in, units>>

OverlapNext == CheckOverlapCall

OverlapSpec == OverlapInit /\ [][OverlapNext]_vars

(* ------------- candidate_objects_with_rotations on its own ------------- *)
\* everything but the state of the functions run on their own
run == <<args, properties, config, view, pc, error, obj_names, camera_configs,
         retained, object_combinations, pair_idx, scene_idx, image_count, cur,
         dirs, images, masks, records, attempted, states, retries,
         render_issued, ov_in, ov_out>>

\* no run of main is going on
RunIdle ==
    /\ args = ArgsOf(FALSE, FALSE, << >>, 1, 1, "front", NoCamera)
    /\ properties = PropertiesOf(CHOOSE o \in OrientTables : o["A"] = "front",
                                 <<"none", "-", "-">>)
    /\ config = ConfigOf(<<"none", "-", "-">>)
    /\ view = CHOOSE v \in ViewSamples : v.us1 = {0}
    /\ RunStart
    /\ ov_in = NoOverlapInput
    /\ ov_out = << >>

\* a properties entry as a dict on the heap; rotation -1 and orientation "-"
\* stand for a key that is not set
Cell(name, orientation) ==
    [name |-> name, keys |-> Keys, default_orientation |-> orientation,
     group |-> GroupOf[name], rotation |-> -1, orientation |-> "-"]

\* the properties table as dicts at the addresses 1..3
HeapOf(orient) == [k \in 1..Len(NameOrder) |-> Cell(NameOrder[k], orient[NameOrder[k]])]

\* the copy is the argument itself
NoCopy(h, a) == <<h, a>>

\* copy.deepcopy (render_scene.py:113, :119): a new dict with the same
\* contents; the result is the heap and the address of the copy
deepcopy(h, a) == <<Append(h, h[a]), Len(h) + 1>>

\* ret_obj['rotation'] = ..., ret_obj['orientation'] = ...
\* (render_scene.py:114-115, :120-121)
SetVariant(h, a, rotation, orientation) ==
    [h EXCEPT ![a].rotation = rotation, ![a].orientation = orientation]

CandidatesInit ==
    /\ RunIdle
    /\ CameraIdle
    /\ PlacementIdle
    /\ \E o \in [ObjNames -> Dirs \cup {None}] : heap = HeapOf(o)
    /\ \E a \in 1..Len(NameOrder) :
          cand = [obj |-> a, i |-> 0, ret_objs |-> << >>, before |-> heap, returned |-> FALSE]

\* one pass of the loop of render_scene.py:112-116
CandidatesLoop ==
    /\ ~cand.returned
    /\ heap[cand.obj].default_orientation # None
    /\ cand.i < 4
    /\ LET c == deepcopy(heap, cand.obj)
           o == directions[((IndexOf(directions, heap[cand.obj].default_orientation) - 1
                               + cand.i) % 4) + 1]
       IN /\ heap' = SetVariant(c[1], c[2], cand.i, o)
          /\ cand' = [cand EXCEPT !.i = @ + 1, !.ret_objs = Append(@, c[2])]
    /\ UNCHANGED <<run, camvars, pl>>

\* render_scene.py:117
CandidatesReturn ==
    /\ ~cand.returned
    /\ heap[cand.obj].default_orientation # None
    /\ cand.i = 4
    /\ cand' = [cand EXCEPT !.returned = TRUE]
    /\ UNCHANGED <<run, heap, camvars, pl>>

\* the object has no default orientation (render_scene.py:118-122)
CandidatesSingle ==
    /\ ~cand.returned
    /\ heap[cand.obj].default_orientation = None
    /\ LET c == deepcopy(heap, cand.obj)
       IN /\ heap' = SetVariant(c[1], c[2], 0, None)
          /\ cand' = [cand EXCEPT !.ret_objs = <<c[2]>>, !.returned = TRUE]
    /\ UNCHANGED <<run, camvars, pl>>

CandidatesNext == CandidatesLoop \/ CandidatesReturn \/ CandidatesSingle

CandidatesSpec == CandidatesInit /\ [][CandidatesNext]_vars

(* ------------------- generate_camera_configs on its own ---------------- *)
\* the counts asked for: small ones and those around the size of the grid
CamCounts == (0..MaxCams) \cup {GridSize - 1, GridSize, GridSize + 1}

CameraInit ==
    /\ RunIdle
    /\ CandidatesIdle
    /\ PlacementIdle
    /\ rng \in {0, 1, Seed}
    /\ \E n1, n2 \in CamCounts : cam = [counts |-> <<n1, n2>>, out |-> << >>]

\* one call of generate_camera_configs (render_scene.py:76-98)
CameraCall ==
    /\ Len(cam.out) < Len(cam.counts)
    /\ cam' = [cam EXCEPT !.out = Append(@, generate_camera_configs(cam.counts[Len(cam.out) + 1]))]
    /\ rng' = RngAfterSampling
    /\ UNCHANGED <<run, candvars, pl>>

CameraNext == CameraCall

CameraSpec == CameraInit /\ [][CameraNext]_vars

(* ---- the direction frame and the placement of render_scene_3drf on their own ---- *)
Abs(i) == IF i < 0 THEN -i ELSE i

RECURSIVE GCD(_, _)
GCD(a, b) == IF b = 0 THEN a ELSE GCD(b, a % b)

\* a vector with rational coordinates x/den, y/den, z/den
Vec(x, y, z, den) == [x |-> x, y |-> y, z |-> z, den |-> den]

\* cosine and sine of math.radians(degrees) as <<cos, sin, den>>, taken at the
\* rational point of the unit circle next to the angle: 84.8, 90, 95.2 degrees
\* for the tilts and 39.97, 45.24, 50.03 degrees for the pans
CosSin(degrees) ==
    CASE degrees = 85 -> <<44, 483, 485>>
      [] degrees = 90 -> <<0, 1, 1>>
      [] degrees = 95 -> <<-44, 483, 485>>
      [] degrees = 40 -> <<105, 88, 137>>
      [] degrees = 45 -> <<119, 120, 169>>
      [] degrees = 50 -> <<88, 105, 137>>

\* camera.matrix_world.to_quaternion() @ v for rotation_euler = (tilt, 0, pan):
\* a turn by tilt about X, then by pan about Z
Rotate(tilt, pan, v) ==
    LET t == CosSin(tilt)
        p == CosSin(pan)
        wx == v.x * t[3]
        wy == t[1] * v.y - t[2] * v.z
        wz == t[2] * v.y + t[1] * v.z
    IN  Vec(p[1] * wx - p[2] * wy, p[2] * wx + p[1] * wy, wz * p[3], v.den * t[3] * p[3])

Dot(v, w) == v.x * w.x + v.y * w.y + v.z * w.z

\* -v
Neg(v) == [v EXCEPT !.x = -v.x, !.y = -v.y, !.z = -v.z]

\* v - w
Sub(v, w) ==
    LET l == (v.den \div GCD(v.den, w.den)) * w.den
        a == l \div v.den
        b == l \div w.den
    IN  Vec(v.x * a - w.x * b, v.y * a - w.y * b, v.z * a - w.z * b, l)

\* v.project(n) for a normal n with whole coordinates: (v.n / n.n) n
project(v, n) == Vec(Dot(v, n) * n.x, Dot(v, n) * n.y, Dot(v, n) * n.z, v.den * Dot(n, n))

\* v.normalized(), also v / np.linalg.norm(v): v over its length; the zero
\* vector stays the zero vector
normalized(v) ==
    LET g == GCD(GCD(Abs(v.x), Abs(v.y)), Abs(v.z))
    IN  IF g = 0 THEN Vec(0, 0, 0, 1)
        ELSE LET x == v.x \div g
                 y == v.y \div g
                 z == v.z \div g
                 r == CHOOSE len \in 1..(Abs(x) + Abs(y) + Abs(z)) :
                          len * len = x * x + y * y + z * z
             IN  Vec(x, y, z, r)

\* the frame with 'right' equal to 'left'
scene_directionsRightAsLeft(tilt, pan) ==
    LET plane_normal == Vec(0, 0, 1, 1)
        cam_behind == Rotate(tilt, pan, Vec(0, 0, -1, 1))
        cam_left == Rotate(tilt, pan, Vec(-1, 0, 0, 1))
        plane_behind == normalized(Sub(cam_behind, project(cam_behind, plane_normal)))
        plane_left == normalized(Sub(cam_left, project(cam_left, plane_normal)))
    IN  [behind |-> plane_behind, front |-> Neg(plane_behind),
         left |-> plane_left, right |-> plane_left]

\* the direction frame (render_objaverse.py:203-217)
scene_directions(tilt, pan) ==
    LET plane_normal == Vec(0, 0, 1, 1)
        cam_behind == Rotate(tilt, pan, Vec(0, 0, -1, 1))
        cam_left == Rotate(tilt, pan, Vec(-1, 0, 0, 1))
        plane_behind == normalized(Sub(cam_behind, project(cam_behind, plane_normal)))
        plane_left == normalized(Sub(cam_left, project(cam_left, plane_normal)))
    IN  [behind |-> plane_behind, front |-> Neg(plane_behind),
         left |-> plane_left, right |-> Neg(plane_left)]

\* np.array(v)[:2] / np.linalg.norm(...) (render_objaverse.py:219-220)
normalized_direction(v) == normalized(Vec(v.x, v.y, 0, v.den))

\* (u * (num / den)).tolist(): a 2D position x/den, y/den in lowest terms
Position(u, num, den) ==
    LET g == GCD(GCD(Abs(u.x * num), Abs(u.y * num)), u.den * den)
    IN  [x |-> (u.x * num) \div g, y |-> (u.y * num) \div g, den |-> (u.den * den) \div g]

\* values of --distance-between-objects (default 3)
Distances == {1, 3}

\* an object dict before render_scene_3drf has placed it
NoPosition == [x |-> 0, y |-> 0, den |-> 0]

Dict(name) == [name |-> name, position |-> NoPosition]

\* one call of render_scene_3drf: the two dicts by address, direction, camera
SceneCall(ground, figure, direction, tilt, pan) ==
    [ground |-> ground, figure |-> figure, direction |-> direction, tilt |-> tilt, pan |-> pan]

Angles == {Tilts[k] : k \in 1..Len(Tilts)} \X {Pans[k] : k \in 1..Len(Pans)}

\* main in single-scene mode: one call on properties[ground_name] and
\* properties[figure_name], one dict when the two names are the same
SingleCalls ==
    {<<SceneCall(1, f, d, a[1], a[2])>> : f \in {1, 2}, d \in Dirs, a \in Angles}

\* render_random_scenes: the scenes of a run share the variant dicts
RandomCalls ==
    {<<SceneCall(1, 2, d[1], a[1], a[2]), SceneCall(g, 3 - g, d[2], b[1], b[2])>> :
        d \in Dirs \X Dirs, g \in {1, 2}, a \in Angles, b \in Angles}

PlacementInit ==
    /\ RunIdle
    /\ CandidatesIdle
    /\ CameraIdle
    /\ \E calls \in SingleCalls \cup RandomCalls, distance \in Distances :
          pl = [calls |-> calls, k |-> 1, at |-> "frame", distance |-> distance,
                dicts |-> <<Dict("A"), Dict("B")>>, scene_directions |-> << >>,
                persisted |-> << >>]

\* render_objaverse.py:198-217
PlaceFrame ==
    /\ pl.at = "frame"
    /\ pl.k <= Len(pl.calls)
    /\ LET call == pl.calls[pl.k]
       IN  pl' = [pl EXCEPT !.scene_directions = scene_directions(call.tilt, call.pan),
                            !.at = "place"]
    /\ UNCHANGED <<run, candvars, camvars>>

\* render_objaverse.py:219-222: the second assignment goes to the same dict
\* when ground and figure are one dict
PlaceObjects ==
    /\ pl.at = "place"
    /\ LET call == pl.calls[pl.k]
           u == normalized_direction(pl.scene_directions[call.direction])
           placed == [pl.dicts EXCEPT ![call.ground].position =
                                          Position(Neg(u), pl.distance, 2)]
       IN  pl' = [pl EXCEPT !.dicts = [placed EXCEPT ![call.figure].position =
                                                        Position(u, pl.distance, 2)],
                            !.at = "record"]
    /\ UNCHANGED <<run, candvars, camvars>>

\* the boxes the two objects of a call project to: bpy.data.objects[name]
\* fetches one object, hence one box, when the two names are the same
PlacedViews(call) ==
    IF pl.dicts[call.ground].name = pl.dicts[call.figure].name
    THEN {[v EXCEPT !.us2 = v.us1, !.vs2 = v.vs1] : v \in ViewSamples}
    ELSE ViewSamples

\* render_objaverse.py:236-254, 270-271: a rejected scene leaves no record
PlaceRecord ==
    /\ pl.at = "record"
    /\ LET call == pl.calls[pl.k]
           ground == pl.dicts[call.ground]
           figure == pl.dicts[call.figure]
       IN  \E v \in PlacedViews(call) :
              IF check_overlap(BBox(v.us1, v.vs1, 1, 1), BBox(v.us2, v.vs2, 1, 1),
                               call.direction)
              THEN pl' = [pl EXCEPT !.k = @ + 1, !.at = "frame"]
              ELSE pl' = [pl EXCEPT !.persisted = Append(@,
                                [direction |-> call.direction,
                                 camera |-> [tilt |-> call.tilt, pan |-> call.pan],
                                 ground_object |-> [name |-> ground.name,
                                                    position |-> ground.position],
                                 figure_object |-> [name |-> figure.name,
                                                    position |-> figure.position]]),
                                   !.k = @ + 1,
                                   !.at = "frame"]
    /\ UNCHANGED <<run, candvars, camvars>>

PlacementNext == PlaceFrame \/ PlaceObjects \/ PlaceRecord

PlacementSpec == PlacementInit /\ [][PlacementNext]_vars

(* ---------------------------- properties ------------------------------- *)
Variants(name) == candidate_objects_with_rotations(properties[name])

\* render_random_scenes has built its worklist
Enumerated ==
    /\ args.render_random
    /\ pc # "main"
    /\ ~(pc = "raised" /\ attempted = << >>)

Occurs(seq, x) == \E k \in 1..Len(seq) : seq[k] = x

\* number of worklist entries of pair k in the directions before the d-th
EntriesBefore(k, d) ==
    LET RECURSIVE E(_)
        E(e) == IF e >= d THEN 0
                ELSE Len(retained[k][directions[e]]) * Len(camera_configs) + E(e + 1)
    IN E(1)

\* number of worklist entries of the pairs before pair k
ScenesBefore(k) ==
    LET RECURSIVE S(_)
        S(l) == IF l >= k THEN 0 ELSE Len(object_combinations[l].scenes) + S(l + 1)
    IN S(1)

\* C2: the worklist is order-stable: pairs in (i<j) list order; within a pair
\* all entries of a direction precede those of the next direction (front,
\* right, behind, left), within a direction all camera configs of a retained
\* candidate, in sampler order, precede the next candidate; a pair's worklist
\* has (retained candidates) * (camera configs) entries; and the scenes are
\* rendered in exactly that order.
C2_OrderStable ==
    Enumerated =>
        /\ \A k \in 1..Len(object_combinations) :
              LET comb == object_combinations[k]
                  ncam == Len(camera_configs)
              IN /\ Occurs(obj_names, comb.obj_i) /\ Occurs(obj_names, comb.obj_j)
                 /\ IndexOf(obj_names, comb.obj_i) < IndexOf(obj_names, comb.obj_j)
                 /\ \A l \in {k - 1} \ {0} :
                       \/ IndexOf(obj_names, object_combinations[l].obj_i)
                             < IndexOf(obj_names, comb.obj_i)
                       \/ /\ object_combinations[l].obj_i = comb.obj_i
                          /\ IndexOf(obj_names, object_combinations[l].obj_j)
                                < IndexOf(obj_names, comb.obj_j)
                 /\ Len(comb.scenes) = EntriesBefore(k, Len(directions) + 1)
                 /\ \A d \in 1..Len(directions) :
                       LET kept == retained[k][directions[d]]
                           before == EntriesBefore(k, d)
                       IN \A s \in 1..Len(kept), c \in 1..ncam :
                             comb.scenes[before + (s - 1) * ncam + c] =
                                [obj_i_r |-> kept[s].obj_i_r, obj_j_r |-> kept[s].obj_j_r,
                                 direction |-> directions[d],
                                 camera_config |-> camera_configs[c]]
                 /\ LET before == ScenesBefore(k)
                    IN \A t \in (before + 1)..Min2(Len(attempted), before + Len(comb.scenes)) :
                          LET call == attempted[t]
                              n == t - before
                          IN /\ call.ground = comb.scenes[n].obj_i_r
                             /\ call.figure = comb.scenes[n].obj_j_r
                             /\ call.direction = comb.scenes[n].direction
                             /\ call.camera_settings = comb.scenes[n].camera_config
                             /\ call.output_image.obj_i = comb.obj_i
                             /\ call.output_image.obj_j = comb.obj_j
        /\ Len(attempted) <= ScenesBefore(Len(object_combinations) + 1)

\* a finished run over three objects, cap 2 and two camera configs that
\* rendered its whole worklist
C2_Witness ==
    /\ pc = "done"
    /\ args.render_random
    /\ Len(obj_names) = 3
    /\ args.max_images = 2
    /\ Len(camera_configs) = 2
    /\ Len(attempted) = ScenesBefore(Len(object_combinations) + 1)
    /\ Len(attempted) >= 3 * 4 * 2

InCall == cur.index # -1

\* every entry is larger than the one before it, hence no two are equal
Increasing(seq) == \A a \in 2..Len(seq) : seq[a - 1] < seq[a]

C3Inv ==
    args.render_random =>
        /\ \A t \in 1..Len(attempted) :
              /\ attempted[t].index = t - 1
              /\ attempted[t].output_image.file = t - 1
              /\ attempted[t].output_scene.file = t - 1
        /\ image_count = Len(attempted) - (IF InCall THEN 1 ELSE 0)
        /\ Increasing([r \in 1..Len(records) |-> records[r].image_index])
        /\ Increasing([r \in 1..Len(records) |-> records[r].image_filename])
        /\ Increasing([r \in 1..Len(records) |-> records[r].output_scene.file])
        /\ Increasing(masks)

C3Step ==
    args.render_random =>
        IF InCall /\ cur'.index = -1
        THEN image_count' = image_count + 1
        ELSE image_count' = image_count

\* C3: in random mode the image index is one run-wide counter: the k-th
\* attempted scene is rendered with index k (from 0), the counter advances by
\* exactly one when a call returns, accepted or rejected, and never otherwise;
\* the indices and file names of the persisted records and masks grow along
\* the run, so they are pairwise distinct.
C3_RunWideIndex == [](C3Inv) /\ [][C3Step]_vars

\* a finished run over several pairs with accepted and rejected scenes
C3_Witness ==
    /\ pc = "done"
    /\ args.render_random
    /\ Len(object_combinations) >= 2
    /\ image_count = Len(attempted)
    /\ Len(records) >= 2
    /\ Len(records) < image_count
    /\ \E r \in 1..Len(records) : records[r].image_index > r - 1

\* the directories of the pair and of the (pair, direction) of a call
CallDirs(call) ==
    {DirPath("images", call.output_image.obj_i, call.output_image.obj_j, "-"),
     DirPath("scenes", call.output_image.obj_i, call.output_image.obj_j, "-"),
     DirPath("images", call.output_image.obj_i, call.output_image.obj_j, call.direction),
     DirPath("scenes", call.output_image.obj_i, call.output_image.obj_j, call.direction)}

\* the directories of every pair and of every (pair, direction) of the worklist
WorklistDirs ==
    UNION {{DirPath("images", object_combinations[k].obj_i, object_combinations[k].obj_j, "-"),
            DirPath("scenes", object_combinations[k].obj_i, object_combinations[k].obj_j, "-")}
           \cup UNION {DirectionDirs(object_combinations[k], object_combinations[k].scenes[n]) :
                          n \in 1..Len(object_combinations[k].scenes)} :
           k \in 1..Len(object_combinations)}

\* C4 as stated: at the first render call of a run the directories of all
\* pairs and of all (pair, direction) combinations exist.
C4_AllDirsBeforeFirstRender ==
    (args.render_random /\ pc = "render" /\ ~render_issued) => WorklistDirs \subseteq dirs

C4Step ==
    args.render_random =>
        /\ pc = "render" => CallDirs(cur) \subseteq dirs
        /\ dirs \subseteq dirs'
        /\ \A p \in dirs' \ dirs :
              p.direction # "-" =>
                 /\ Len(attempted') = Len(attempted) + 1
                 /\ p \in CallDirs(cur')

\* C4 amended: the directories of a pair are made when the render loop reaches
\* the pair and those of a (pair, direction) right before each scene of that
\* direction: whenever a render call is issued the directories of its scene
\* exist, directories are never removed, and a (pair, direction) directory is
\* made only by the step that begins a scene of that pair and direction.
C4_DirsBeforeOwnRender == [][C4Step]_vars

\* the first pair is being rendered and the second pair has no directory yet
C4_Witness ==
    /\ args.render_random
    /\ pc = "render"
    /\ Len(attempted) >= 2
    /\ Len(object_combinations) >= 2
    /\ DirPath("images", object_combinations[2].obj_i, object_combinations[2].obj_j, "-")
          \notin dirs

\* render_scene_3drf has returned for the t-th call
Returned(t) == IF args.render_random THEN t <= image_count ELSE t = 1 /\ pc = "done"

\* the returned calls that the validator accepted, in call order
AcceptedCalls ==
    SelectSeq([t \in 1..Len(attempted) |-> t],
              LAMBDA t : Returned(t) /\ states[t] = "ACCEPTED")

\* C5: after render_scene_3drf returns, a scene record and a mask of the scene
\* exist if and only if the validator accepted it; after a rejection the image
\* is gone and neither mask nor record exists.  (The records are those of the
\* accepted returned calls, one each; so are the masks, except for the mask of
\* a call that has not returned.)
C5_PersistedIffAccepted ==
    /\ \A t \in 1..Len(attempted) :
          Returned(t) =>
             /\ states[t] \in {"ACCEPTED", "REJECTED"}
             /\ states[t] = "REJECTED" => attempted[t].output_image \notin images
    /\ LET accepted == AcceptedCalls
       IN /\ Len(records) = Len(accepted)
          /\ \A r \in 1..Len(records) :
                /\ records[r].output_scene = attempted[accepted[r]].output_scene
                /\ records[r].image_index = attempted[accepted[r]].index
                /\ masks[r] = attempted[accepted[r]].output_image.file
    /\ Len(masks) \in {Len(records), Len(records) + 1}
    /\ Len(masks) = Len(records) + 1 =>
          /\ ~Returned(Len(attempted))
          /\ masks[Len(masks)] = attempted[Len(attempted)].output_image.file

\* a call has returned after a rejection and another after an acceptance
C5_Witness ==
    /\ \E t \in 1..Len(attempted) : Returned(t) /\ states[t] = "REJECTED"
    /\ \E t \in 1..Len(attempted) : Returned(t) /\ states[t] = "ACCEPTED"

\* C6: an exception of the external render call is never escalated, neither
\* from the image render nor from the render of the mask extraction.
C6_RenderErrorNeverEscalates == ~(pc = "raised" /\ error = "RenderError")

C7Allowed == {<<"PLANNED", "RENDERED">>, <<"RENDERED", "ACCEPTED">>, <<"RENDERED", "REJECTED">>}

C7Step ==
    /\ Len(states') \in {Len(states), Len(states) + 1}
    /\ \A t \in 1..Len(states) :
          states'[t] = states[t] \/ <<states[t], states'[t]>> \in C7Allowed
    /\ Len(states') = Len(states) + 1 =>
          /\ states'[Len(states')] \in {"PLANNED", "NONE"}
          /\ \A t \in 1..Len(states) : states[t] \in {"ACCEPTED", "REJECTED"}
    /\ pc = "check" => states[Len(states)] = "RENDERED" /\ cur.output_image \in images
    /\ (masks' # masks \/ records' # records) =>
          /\ states # << >>
          /\ states[Len(states)] = "ACCEPTED"
          /\ states' = states

\* C7: a scene only moves PLANNED -> RENDERED -> {ACCEPTED, REJECTED}; the
\* validator runs on a rendered scene only, mask and record are written only
\* for an accepted scene, ACCEPTED and REJECTED are final, and a scene begins
\* only when all earlier scenes are final.
C7_Transitions == [][C7Step]_vars

\* the mask of an accepted scene is about to be extracted after an earlier
\* scene was rejected
C7_Witness ==
    /\ pc = "mask"
    /\ Len(states) >= 2
    /\ states[Len(states)] = "ACCEPTED"
    /\ \E t \in 1..Len(states) : states[t] = "REJECTED"

\* C9: a run that ends with a configuration error has issued no render call.
C9_ConfigErrorBeforeAnyRender ==
    (pc = "raised" /\ error \in {"KeyError", "AssertionError", "FileNotFoundError"})
        => ~render_issued

\* C8: with a valid configuration, a random-mode run ends only after every
\* worklist entry was attempted exactly once and every scene is ACCEPTED or
\* REJECTED (render failures are retried, so they never end the run).
C8_RunAttemptsEveryScene ==
    (args.render_random /\ ConfigValid(properties, config) /\ pc \in {"done", "raised"})
        => /\ pc = "done"
           /\ image_count = ScenesBefore(Len(object_combinations) + 1)
           /\ Len(attempted) = image_count
           /\ \A t \in 1..Len(states) : states[t] \in {"ACCEPTED", "REJECTED"}

\* the two rectangles check_overlap computes from its arguments
OvGround == BBox(ov_in.us1, ov_in.vs1, ov_in.width, ov_in.height)

OvFigure == BBox(ov_in.us2, ov_in.vs2, ov_in.width, ov_in.height)

\* C10: two rectangles whose intersection area is 0 are accepted
\* (check_overlap returns False) for every direction, whatever their areas.
C10_ZeroOverlapAccepted ==
    (ov_out # << >> /\ intersection_area(OvGround, OvFigure) = 0) => ov_out[1] = FALSE

\* number of pixel columns (rows) two pixel intervals have in common
SharedCells(lo1, hi1, lo2, hi2) == Cardinality((lo1..(hi1 - 1)) \cap (lo2..(hi2 - 1)))

\* number of pixels that lie in both rectangles
SharedPixels(b1, b2) ==
    SharedCells(b1.x_min, b1.x_max, b2.x_min, b2.x_max)
        * SharedCells(b1.y_min, b1.y_max, b2.y_min, b2.y_max)

\* C11: for direction left or right check_overlap rejects exactly when the two
\* rectangles share at least one pixel; the result does not depend on which
\* rectangle is the ground and which the figure, nor on their areas.
C11_SideBySideRejectsIffShared ==
    (ov_out # << >> /\ ov_in.direction \in {"left", "right"}) =>
        /\ ov_out[1] = (SharedPixels(OvGround, OvFigure) > 0)
        /\ ov_out[1] = check_overlap(OvFigure, OvGround, ov_in.direction)

\* two rectangles of different positive areas that share an edge, direction
\* left, accepted
C11_Witness ==
    /\ ov_out = <<FALSE>>
    /\ ov_in.direction = "left"
    /\ OvGround.x_max = OvFigure.x_min
    /\ OvGround.area > 0
    /\ OvFigure.area > OvGround.area
    /\ SharedCells(OvGround.y_min, OvGround.y_max, OvFigure.y_min, OvFigure.y_max) > 0

\* C12: for direction front or behind check_overlap rejects exactly when the
\* intersection is at least 75% of the smaller area and the strictly smaller
\* rectangle is the one the direction places behind (ground with front, figure
\* with behind); two rectangles of equal area are accepted.
C12_DepthRejectsIffSmallerBehind ==
    (ov_out # << >> /\ ov_in.direction \in {"front", "behind"}) =>
        (ov_out[1] =
            (/\ 4 * SharedPixels(OvGround, OvFigure)
                    >= 3 * Min2(OvGround.area, OvFigure.area)
             /\ \/ (OvGround.area < OvFigure.area /\ ov_in.direction = "front")
                \/ (OvFigure.area < OvGround.area /\ ov_in.direction = "behind")))

\* the variants a finished call returned, as the worklist holds them
ReturnedVariants ==
    [k \in 1..Len(cand.ret_objs) |->
        [name |-> heap[cand.ret_objs[k]].name, keys |-> heap[cand.ret_objs[k]].keys,
         rotation |-> heap[cand.ret_objs[k]].rotation,
         orientation |-> heap[cand.ret_objs[k]].orientation]]

\* C13: for a default orientation among front/right/behind/left
\* candidate_objects_with_rotations returns 4 variants with rotations 0, pi/2,
\* pi, 3pi/2 (0..3 quarter turns) in that order, the k-th oriented k steps
\* after the default in the cycle front, right, behind, left; with no default
\* orientation it returns one variant with rotation 0 and no orientation; the
\* entry passed in, and every other entry, is left as it was.
C13_VariantsOfDefault ==
    cand.returned =>
        LET obj == cand.before[cand.obj]
            d == obj.default_orientation
        IN /\ d \in Dirs =>
                 /\ Len(cand.ret_objs) = 4
                 /\ \A k \in 0..3 :
                       /\ ReturnedVariants[k + 1].rotation = k
                       /\ ReturnedVariants[k + 1].orientation =
                             directions[((IndexOf(directions, d) - 1 + k) % 4) + 1]
                 /\ {ReturnedVariants[k].orientation : k \in 1..4} = Dirs
                 /\ ReturnedVariants[1].orientation = d
           /\ d = None =>
                 /\ Len(cand.ret_objs) = 1
                 /\ ReturnedVariants[1].rotation = 0
                 /\ ReturnedVariants[1].orientation = None
           /\ \A k \in 1..Len(cand.ret_objs) : ReturnedVariants[k].name = obj.name
           /\ ReturnedVariants =
                 candidate_objects_with_rotations(
                    [name |-> obj.name, keys |-> obj.keys, default_orientation |-> d])
           /\ SubSeq(heap, 1, Len(cand.before)) = cand.before

\* a finished call for an object that faces left by default: the variants
\* face left, front, right, behind
C13_Witness ==
    /\ cand.returned
    /\ cand.before[cand.obj].default_orientation = "left"
    /\ Len(cand.ret_objs) = 4
    /\ ReturnedVariants[2].orientation = "front"
    /\ ReturnedVariants[4].rotation = 3

\* the relation and caption an object with an orientation carries
HasIntrinsic(summary, orientation, direction) ==
    /\ "intrinsic_relation" \in DOMAIN summary
    /\ "intrinsic_caption" \in DOMAIN summary
    /\ summary.intrinsic_relation = <<orientation, direction>>
    /\ summary.intrinsic_caption.table = "3d_intrinsic"
    /\ summary.intrinsic_caption.key = summary.intrinsic_relation

LacksIntrinsic(summary) ==
    /\ "intrinsic_relation" \notin DOMAIN summary
    /\ "intrinsic_caption" \notin DOMAIN summary

Opposite == [d \in Dirs |-> CASE d = "front" -> "behind" [] d = "behind" -> "front"
                                [] d = "left" -> "right" [] OTHER -> "left"]

\* C14: every persisted record has a translational and a reflectional caption
\* made from the template of the scene's direction with (figure, ground); the
\* ground carries an intrinsic relation and caption exactly if it has an
\* orientation, looked up with (ground orientation, direction), the figure
\* exactly if it has one, looked up with (figure orientation, opposite direction).
C14_RecordCaptions ==
    LET accepted == AcceptedCalls
    IN \A r \in 1..Len(records) :
        LET call == attempted[accepted[r]]
            rec == records[r]
        IN /\ rec.translational_relation_caption =
                 [table |-> "3d_translation", key |-> call.direction,
                  args |-> <<call.figure.name, call.ground.name>>]
           /\ rec.reflectional_relation_caption =
                 [table |-> "3d_reflection", key |-> call.direction,
                  args |-> <<call.figure.name, call.ground.name>>]
           /\ IF call.ground.orientation # None
              THEN HasIntrinsic(rec.ground_object, call.ground.orientation, call.direction)
              ELSE LacksIntrinsic(rec.ground_object)
           /\ IF call.figure.orientation # None
              THEN HasIntrinsic(rec.figure_object, call.figure.orientation,
                                Opposite[call.direction])
              ELSE LacksIntrinsic(rec.figure_object)

\* a record of a left scene whose ground has an orientation and whose figure
\* has none, and a record of a front scene whose figure has an orientation
C14_Witness ==
    /\ \E r \in 1..Len(records) :
          /\ records[r].direction = "left"
          /\ "intrinsic_relation" \in DOMAIN records[r].ground_object
          /\ "intrinsic_relation" \notin DOMAIN records[r].figure_object
    /\ \E r \in 1..Len(records) :
          /\ records[r].direction = "front"
          /\ "intrinsic_relation" \in DOMAIN records[r].figure_object
          /\ records[r].figure_object.intrinsic_relation[2] = "behind"

IsPrefix(a, b) == Len(a) <= Len(b) /\ a = SubSeq(b, 1, Len(a))

\* the 81 combinations of the four value lists
GridEntries ==
    [tilt : {85, 90, 95}, pan : {40, 45, 50}, height : {1, 2, 3},
     focal_length : {50, 60, 70}]

\* C16: generate_camera_configs(N), N >= 0, returns min(N, 81) pairwise
\* different entries of the 81-entry grid; of the results of two calls the
\* shorter is a prefix of the longer, so calls with the same N return the same
\* sequence, and N = 81 returns every grid entry exactly once.
C16_PrefixOfOnePermutation ==
    /\ \A k \in 1..Len(cam.out) :
          /\ Len(cam.out[k]) = Min2(cam.counts[k], 81)
          /\ \A a \in 1..Len(cam.out[k]) : cam.out[k][a] \in GridEntries
          /\ Cardinality({cam.out[k][a] : a \in 1..Len(cam.out[k])}) = Len(cam.out[k])
          /\ cam.counts[k] = 81 => {cam.out[k][a] : a \in 1..81} = GridEntries
    /\ \A k, l \in 1..Len(cam.out) :
          /\ cam.counts[k] <= cam.counts[l] => IsPrefix(cam.out[k], cam.out[l])
          /\ cam.counts[k] = cam.counts[l] => cam.out[k] = cam.out[l]

\* a call for 2 configurations after a call for all 81, and the two results
\* are not in grid order
C16_Witness ==
    /\ Len(cam.out) = 2
    /\ cam.counts = <<81, 2>>
    /\ cam.out[2] # SubSeq(Grid, 1, 2)
    /\ cam.out[1] # Grid

\* the four camera options of the command line
CameraOptions ==
    [tilt |-> args.camera_tilt, pan |-> args.camera_pan, height |-> args.camera_height,
     focal_length |-> args.camera_focal_length]

AllOptionsGiven ==
    NotGiven \notin {args.camera_tilt, args.camera_pan, args.camera_height,
                     args.camera_focal_length}

\* C18: in random mode, if all four camera options are given, with any values
\* including 0, every scene is rendered and recorded with exactly those four
\* values; otherwise every scene is rendered with the sampled configuration of
\* its worklist entry.
C18_OverridesWhenAllGiven ==
    args.render_random =>
        /\ pc \in {"render", "check", "mask"} =>
              cur.camera_settings =
                 IF AllOptionsGiven THEN CameraOptions
                 ELSE object_combinations[pair_idx].scenes[scene_idx].camera_config
        /\ \A r \in 1..Len(records) :
              IF AllOptionsGiven THEN records[r].camera = CameraOptions
              ELSE Occurs(camera_configs, records[r].camera)

UnitLength(v) == v.x * v.x + v.y * v.y + v.z * v.z = v.den * v.den

\* C17: for every tilt and pan of the sampled range, the frame computed by
\* render_scene_3drf has front = -behind and left = -right, its four vectors
\* have length one and lie in the ground plane (no component along the plane
\* normal), and front is orthogonal to left.
C17_DirectionFrame ==
    pl.at \in {"place", "record"} =>
        LET f == pl.scene_directions
        IN  /\ f.front = Neg(f.behind)
            /\ f.left = Neg(f.right)
            /\ \A d \in Dirs : UnitLength(f[d]) /\ Dot(f[d], Vec(0, 0, 1, 1)) = 0
            /\ Dot(f.front, f.left) = 0

\* a frame has been computed for a tilted and panned camera
C17_Witness ==
    /\ pl.at = "place"
    /\ pl.calls[pl.k].tilt = 85
    /\ pl.calls[pl.k].pan = 50
    /\ pl.scene_directions.behind = Vec(-105, 88, 0, 137)
    /\ pl.scene_directions.left = Vec(-88, -105, 0, 137)

\* C15: in every persisted record the ground is at -(d/2)u and the figure at
\* +(d/2)u, u being the unit vector of the record's own direction in the frame
\* of the record's own camera, so the two positions are d apart.
C15_SymmetricPlacement ==
    \A i \in 1..Len(pl.persisted) :
        LET rec == pl.persisted[i]
            u == normalized_direction(
                     scene_directions(rec.camera.tilt, rec.camera.pan)[rec.direction])
            g == rec.ground_object.position
            f == rec.figure_object.position
        IN  /\ g = Position(Neg(u), pl.distance, 2)
            /\ f = Position(u, pl.distance, 2)
            /\ g.den = f.den
            /\ (f.x - g.x) * (f.x - g.x) + (f.y - g.y) * (f.y - g.y)
                   = pl.distance * pl.distance * g.den * g.den

====
